---- MODULE Spec2Model ----
(***************************************************************************)
(* A model of weibo_trends_analyzer.py: the single-shot pipeline            *)
(*   main -> WeiboTrendsAnalyzer.__init__ -> run_analysis ->                *)
(*   fetch_hotspots -> analyze_with_claude | analyze_basic ->               *)
(*   generate_markdown_report -> (write) -> sys.exit                        *)
(* together with the pure rule-based analyzer analyze_hotspot_basic.        *)
(*                                                                         *)
(* Text.  TLC strings cannot be indexed and the parser accepts ASCII only,  *)
(* so a Python str that the code inspects character by character (a title,  *)
(* a heat string, a tag, a regex keyword) is a sequence of one-character    *)
(* tokens: an ASCII character is itself ("A", "5", ","), any other          *)
(* character is its code point ("u624B" is U+624B).  A str that the code    *)
(* only copies and compares (a category, a sentiment, a grade, a template's *)
(* prose) is an ASCII name: the pinyin of the source literal, or            *)
(* "tplNN.<field>" for the prose of template NN.                            *)
(*                                                                         *)
(* Python values whose type the code does not fix (what json.loads returns) *)
(* are tagged records [type |-> ..., val |-> ...].                          *)
(***************************************************************************)
EXTENDS Integers, Sequences, FiniteSets, TLC

VARIABLES
    pc,               \* position of main(): "start", "constructed", "fetched",
                      \*   "analyzed", "exited"
    tianapi_key,      \* TRUE iff TIANAPI_KEY is set (self.tianapi_key truthy)
    anthropic_key,    \* TRUE iff ANTHROPIC_API_KEY is set
    CLAUDE_AVAILABLE, \* module flag: `import anthropic` succeeded
    client_init_ok,   \* environment: anthropic.Anthropic(...) would not raise
    use_claude,       \* run_analysis argument (--use-claude)
    limit,            \* run_analysis argument (-n)
    output_file,      \* TRUE iff -o was given
    claude_client,    \* self.claude_client: FALSE is None, TRUE a client
    api_response,     \* what the topics source answered (input of the fetch)
    self_hotspots,    \* self.hotspots
    hotspots,         \* the list fetch_hotspots returned to run_analysis
    claude_response,  \* what the generation call answered (input of analysis)
    analysis_results, \* self.analysis_results
    path,             \* which code produced analysis_results
    report,           \* what generate_markdown_report built, NoReport before
    returned,         \* what run_analysis returned: "none", "empty", "report"
    file_written,     \* the report was written to output_file
    exit_code,        \* sys.exit status, -1 while running
    fetch_requests,   \* number of requests.get calls issued
    claude_requests,  \* number of messages.create calls issued
    basic_calls,      \* number of analyze_hotspot_basic calls made
    unit              \* harness of analyze_hotspot_basic alone (SpecBasic)

vars == <<pc, tianapi_key, anthropic_key, CLAUDE_AVAILABLE, client_init_ok,
          use_claude, limit, output_file, claude_client, api_response,
          self_hotspots, hotspots, claude_response, analysis_results, path,
          report, returned, file_written, exit_code, fetch_requests,
          claude_requests, basic_calls, unit>>

-----------------------------------------------------------------------------
(* Bounds of the model.                                                     *)

MaxEntries == 2    \* longest result list the topics source answers with
MaxLimit == 2      \* largest -n
MaxArray == 2      \* longest JSON array in a generation response

-----------------------------------------------------------------------------
(* Python text primitives.                                                  *)

Min(a, b) == IF a <= b THEN a ELSE b

UpperCase == <<"A","B","C","D","E","F","G","H","I","J","K","L","M",
               "N","O","P","Q","R","S","T","U","V","W","X","Y","Z">>
LowerCase == <<"a","b","c","d","e","f","g","h","i","j","k","l","m",
               "n","o","p","q","r","s","t","u","v","w","x","y","z">>

\* re.IGNORECASE compares characters up to case.
ToLower == [c \in {UpperCase[i] : i \in 1..26} |->
               LowerCase[CHOOSE i \in 1..26 : UpperCase[i] = c]]

Lower(c) == IF c \in DOMAIN ToLower THEN ToLower[c] ELSE c

Digits == <<"0","1","2","3","4","5","6","7","8","9">>

DigitValue == [c \in {Digits[i] : i \in 1..10} |->
                  (CHOOSE i \in 1..10 : Digits[i] = c) - 1]

IsDigit(c) == c \in DOMAIN DigitValue

DigitVal(c) == DigitValue[c]

IsSpace(c) == c = " "

\* str.strip(): drop leading and trailing whitespace.
RECURSIVE lstrip(_)
lstrip(s) == IF s # <<>> /\ IsSpace(Head(s)) THEN lstrip(Tail(s)) ELSE s

RECURSIVE rstrip(_)
rstrip(s) ==
    IF s # <<>> /\ IsSpace(s[Len(s)]) THEN rstrip(SubSeq(s, 1, Len(s) - 1)) ELSE s

strip(s) == rstrip(lstrip(s))

\* re.sub(r'[^\d]', '', s): keep the digits only.
RECURSIVE re_sub_nondigit(_)
re_sub_nondigit(s) ==
    IF s = <<>> THEN <<>>
    ELSE IF IsDigit(Head(s)) THEN <<Head(s)>> \o re_sub_nondigit(Tail(s))
    ELSE re_sub_nondigit(Tail(s))

\* int(s) of a string of digits; int('') raises ValueError.
RECURSIVE int_digits(_)
int_digits(s) ==
    IF s = <<>> THEN 0
    ELSE 10 * int_digits(SubSeq(s, 1, Len(s) - 1)) + DigitVal(s[Len(s)])

int_raises(s) == s = <<>>

\* dict.get(key, default)
Get(d, key, default) == IF key \in DOMAIN d THEN d[key] ELSE default

\* s[:n] for n >= 0: the first n items, all of s when it is shorter.
Prefix(s, n) == SubSeq(s, 1, Min(n, Len(s)))

-----------------------------------------------------------------------------
(* analyze_hotspot_basic: the rule-based analyzer.                          *)

\* One position of a keyword against one character of the title: \d is any
\* digit, everything else a literal compared up to case.
CharMatch(p, c) == IF p = "\\d" THEN IsDigit(c) ELSE Lower(p) = Lower(c)

\* The keyword occurs in the title at position pos.
KeywordAt(kw, title, pos) ==
    /\ pos + Len(kw) - 1 <= Len(title)
    /\ \A j \in 1..Len(kw) : CharMatch(kw[j], title[pos + j - 1])

\* re.search(pattern, title, re.IGNORECASE) for a pattern that is an
\* alternation of keywords.
re_search(pattern, title) ==
    \E k \in 1..Len(pattern) : \E pos \in 1..Len(title) :
        KeywordAt(pattern[k], title, pos)

\* idea_templates in declaration order (a dict iterates in insertion order).
idea_templates ==
  << \* 1 (line 279): 火灾|安全|事故|爆炸|地震|灾害 -> 社会安全, 负面, 「守护者」家庭安全机器人
     [pattern |-> <<<<"u706B", "u707E">>,
                    <<"u5B89", "u5168">>,
                    <<"u4E8B", "u6545">>,
                    <<"u7206", "u70B8">>,
                    <<"u5730", "u9707">>,
                    <<"u707E", "u5BB3">>>>,
      category |-> "shehui_anquan", sentiment |-> "fumian", name |-> <<"tpl01.name">>,
      function |-> "tpl01.function", users |-> "tpl01.users",
      hidden_need |-> "tpl01.hidden_need", creative_method |-> "tpl01.creative_method",
      business_value |-> "tpl01.business_value", innovation |-> "tpl01.innovation",
      barrier |-> "tpl01.barrier", score |-> 88],
     \* 2 (line 293): 篮球|足球|网球|体育|运动|比赛|夺冠|奥运|世界杯|冠军 -> 体育, 正面, 「球探RPG」体育养成游戏
     [pattern |-> <<<<"u7BEE", "u7403">>,
                    <<"u8DB3", "u7403">>,
                    <<"u7F51", "u7403">>,
                    <<"u4F53", "u80B2">>,
                    <<"u8FD0", "u52A8">>,
                    <<"u6BD4", "u8D5B">>,
                    <<"u593A", "u51A0">>,
                    <<"u5965", "u8FD0">>,
                    <<"u4E16", "u754C", "u676F">>,
                    <<"u51A0", "u519B">>>>,
      category |-> "tiyu", sentiment |-> "zhengmian", name |-> <<"tpl02.name">>,
      function |-> "tpl02.function", users |-> "tpl02.users",
      hidden_need |-> "tpl02.hidden_need", creative_method |-> "tpl02.creative_method",
      business_value |-> "tpl02.business_value", innovation |-> "tpl02.innovation",
      barrier |-> "tpl02.barrier", score |-> 86],
     \* 3 (line 307): 太空|航天|火箭|卫星|探测|月球|火星|宇宙 -> 科技, 正面, 「星际公民」AR太空探索
     [pattern |-> <<<<"u592A", "u7A7A">>,
                    <<"u822A", "u5929">>,
                    <<"u706B", "u7BAD">>,
                    <<"u536B", "u661F">>,
                    <<"u63A2", "u6D4B">>,
                    <<"u6708", "u7403">>,
                    <<"u706B", "u661F">>,
                    <<"u5B87", "u5B99">>>>,
      category |-> "keji", sentiment |-> "zhengmian", name |-> <<"tpl03.name">>,
      function |-> "tpl03.function", users |-> "tpl03.users",
      hidden_need |-> "tpl03.hidden_need", creative_method |-> "tpl03.creative_method",
      business_value |-> "tpl03.business_value", innovation |-> "tpl03.innovation",
      barrier |-> "tpl03.barrier", score |-> 89],
     \* 4 (line 321): 电影|电视剧|综艺|票房|演员|导演|剧集|追剧 -> 娱乐, 中性, 「剧本杀影院」沉浸式观影
     [pattern |-> <<<<"u7535", "u5F71">>,
                    <<"u7535", "u89C6", "u5267">>,
                    <<"u7EFC", "u827A">>,
                    <<"u7968", "u623F">>,
                    <<"u6F14", "u5458">>,
                    <<"u5BFC", "u6F14">>,
                    <<"u5267", "u96C6">>,
                    <<"u8FFD", "u5267">>>>,
      category |-> "yule", sentiment |-> "zhongxing", name |-> <<"tpl04.name">>,
      function |-> "tpl04.function", users |-> "tpl04.users",
      hidden_need |-> "tpl04.hidden_need", creative_method |-> "tpl04.creative_method",
      business_value |-> "tpl04.business_value", innovation |-> "tpl04.innovation",
      barrier |-> "tpl04.barrier", score |-> 84],
     \* 5 (line 335): 手机|小米|华为|iPhone|数码|电脑|平板|荣耀|vivo|OPPO|苹果\d|苹果手机|苹果发布|苹果新品 -> 消费电子, 中性, 「数码遗嘱」设备传承服务
     [pattern |-> <<<<"u624B", "u673A">>,
                    <<"u5C0F", "u7C73">>,
                    <<"u534E", "u4E3A">>,
                    <<"i", "P", "h", "o", "n", "e">>,
                    <<"u6570", "u7801">>,
                    <<"u7535", "u8111">>,
                    <<"u5E73", "u677F">>,
                    <<"u8363", "u8000">>,
                    <<"v", "i", "v", "o">>,
                    <<"O", "P", "P", "O">>,
                    <<"u82F9", "u679C", "\\d">>,
                    <<"u82F9", "u679C", "u624B", "u673A">>,
                    <<"u82F9", "u679C", "u53D1", "u5E03">>,
                    <<"u82F9", "u679C", "u65B0", "u54C1">>>>,
      category |-> "xiaofei_dianzi", sentiment |-> "zhongxing", name |-> <<"tpl05.name">>,
      function |-> "tpl05.function", users |-> "tpl05.users",
      hidden_need |-> "tpl05.hidden_need", creative_method |-> "tpl05.creative_method",
      business_value |-> "tpl05.business_value", innovation |-> "tpl05.innovation",
      barrier |-> "tpl05.barrier", score |-> 82],
     \* 6 (line 349): AI|人工智能|ChatGPT|GPT|大模型|机器人|智能 -> 科技, 正面, 「AI分身」数字克隆服务
     [pattern |-> <<<<"A", "I">>,
                    <<"u4EBA", "u5DE5", "u667A", "u80FD">>,
                    <<"C", "h", "a", "t", "G", "P", "T">>,
                    <<"G", "P", "T">>,
                    <<"u5927", "u6A21", "u578B">>,
                    <<"u673A", "u5668", "u4EBA">>,
                    <<"u667A", "u80FD">>>>,
      category |-> "keji", sentiment |-> "zhengmian", name |-> <<"tpl06.name">>,
      function |-> "tpl06.function", users |-> "tpl06.users",
      hidden_need |-> "tpl06.hidden_need", creative_method |-> "tpl06.creative_method",
      business_value |-> "tpl06.business_value", innovation |-> "tpl06.innovation",
      barrier |-> "tpl06.barrier", score |-> 93],
     \* 7 (line 363): 股票|基金|理财|投资|A股|暴涨|暴跌|牛市|熊市|金银 -> 金融, 中性, 「后悔药」模拟投资复盘
     [pattern |-> <<<<"u80A1", "u7968">>,
                    <<"u57FA", "u91D1">>,
                    <<"u7406", "u8D22">>,
                    <<"u6295", "u8D44">>,
                    <<"A", "u80A1">>,
                    <<"u66B4", "u6DA8">>,
                    <<"u66B4", "u8DCC">>,
                    <<"u725B", "u5E02">>,
                    <<"u718A", "u5E02">>,
                    <<"u91D1", "u94F6">>>>,
      category |-> "jinrong", sentiment |-> "zhongxing", name |-> <<"tpl07.name">>,
      function |-> "tpl07.function", users |-> "tpl07.users",
      hidden_need |-> "tpl07.hidden_need", creative_method |-> "tpl07.creative_method",
      business_value |-> "tpl07.business_value", innovation |-> "tpl07.innovation",
      barrier |-> "tpl07.barrier", score |-> 85],
     \* 8 (line 377): 春运|春节|车票|高铁|火车|抢票|回家|返乡 -> 民生出行, 中性, 「拼座」返乡顺风车联盟
     [pattern |-> <<<<"u6625", "u8FD0">>,
                    <<"u6625", "u8282">>,
                    <<"u8F66", "u7968">>,
                    <<"u9AD8", "u94C1">>,
                    <<"u706B", "u8F66">>,
                    <<"u62A2", "u7968">>,
                    <<"u56DE", "u5BB6">>,
                    <<"u8FD4", "u4E61">>>>,
      category |-> "minsheng_chuxing", sentiment |-> "zhongxing", name |-> <<"tpl08.name">>,
      function |-> "tpl08.function", users |-> "tpl08.users",
      hidden_need |-> "tpl08.hidden_need", creative_method |-> "tpl08.creative_method",
      business_value |-> "tpl08.business_value", innovation |-> "tpl08.innovation",
      barrier |-> "tpl08.barrier", score |-> 80],
     \* 9 (line 391): 明星|爱豆|粉丝|演唱会|idol|偶像|出道|应援 -> 娱乐, 正面, 「饭圈DAO」粉丝共创平台
     [pattern |-> <<<<"u660E", "u661F">>,
                    <<"u7231", "u8C46">>,
                    <<"u7C89", "u4E1D">>,
                    <<"u6F14", "u5531", "u4F1A">>,
                    <<"i", "d", "o", "l">>,
                    <<"u5076", "u50CF">>,
                    <<"u51FA", "u9053">>,
                    <<"u5E94", "u63F4">>>>,
      category |-> "yule", sentiment |-> "zhengmian", name |-> <<"tpl09.name">>,
      function |-> "tpl09.function", users |-> "tpl09.users",
      hidden_need |-> "tpl09.hidden_need", creative_method |-> "tpl09.creative_method",
      business_value |-> "tpl09.business_value", innovation |-> "tpl09.innovation",
      barrier |-> "tpl09.barrier", score |-> 78],
     \* 10 (line 405): 立春|春分|谷雨|清明|节气|躲春|咬春|习俗|传统 -> 文化, 正面, 「节气盲盒」文化体验订阅
     [pattern |-> <<<<"u7ACB", "u6625">>,
                    <<"u6625", "u5206">>,
                    <<"u8C37", "u96E8">>,
                    <<"u6E05", "u660E">>,
                    <<"u8282", "u6C14">>,
                    <<"u8EB2", "u6625">>,
                    <<"u54AC", "u6625">>,
                    <<"u4E60", "u4FD7">>,
                    <<"u4F20", "u7EDF">>>>,
      category |-> "wenhua", sentiment |-> "zhengmian", name |-> <<"tpl10.name">>,
      function |-> "tpl10.function", users |-> "tpl10.users",
      hidden_need |-> "tpl10.hidden_need", creative_method |-> "tpl10.creative_method",
      business_value |-> "tpl10.business_value", innovation |-> "tpl10.innovation",
      barrier |-> "tpl10.barrier", score |-> 86],
     \* 11 (line 419): 美食|餐厅|吃|菜|火锅|烧烤|外卖|食物|食品安全|中毒 -> 健康, 中性, 「食愈」情绪化饮食顾问
     [pattern |-> <<<<"u7F8E", "u98DF">>,
                    <<"u9910", "u5385">>,
                    <<"u5403">>,
                    <<"u83DC">>,
                    <<"u706B", "u9505">>,
                    <<"u70E7", "u70E4">>,
                    <<"u5916", "u5356">>,
                    <<"u98DF", "u7269">>,
                    <<"u98DF", "u54C1", "u5B89", "u5168">>,
                    <<"u4E2D", "u6BD2">>>>,
      category |-> "jiankang", sentiment |-> "zhongxing", name |-> <<"tpl11.name">>,
      function |-> "tpl11.function", users |-> "tpl11.users",
      hidden_need |-> "tpl11.hidden_need", creative_method |-> "tpl11.creative_method",
      business_value |-> "tpl11.business_value", innovation |-> "tpl11.innovation",
      barrier |-> "tpl11.barrier", score |-> 84],
     \* 12 (line 433): 考试|高考|考研|学生|老师|学校|毕业|大学|中学 -> 教育, 中性, 「时光机」未来职业体验
     [pattern |-> <<<<"u8003", "u8BD5">>,
                    <<"u9AD8", "u8003">>,
                    <<"u8003", "u7814">>,
                    <<"u5B66", "u751F">>,
                    <<"u8001", "u5E08">>,
                    <<"u5B66", "u6821">>,
                    <<"u6BD5", "u4E1A">>,
                    <<"u5927", "u5B66">>,
                    <<"u4E2D", "u5B66">>>>,
      category |-> "jiaoyu", sentiment |-> "zhongxing", name |-> <<"tpl12.name">>,
      function |-> "tpl12.function", users |-> "tpl12.users",
      hidden_need |-> "tpl12.hidden_need", creative_method |-> "tpl12.creative_method",
      business_value |-> "tpl12.business_value", innovation |-> "tpl12.innovation",
      barrier |-> "tpl12.barrier", score |-> 87],
     \* 13 (line 447): 房价|买房|租房|装修|房子|楼市|房贷 -> 房产, 中性, 「邻里值」社区透明度指数
     [pattern |-> <<<<"u623F", "u4EF7">>,
                    <<"u4E70", "u623F">>,
                    <<"u79DF", "u623F">>,
                    <<"u88C5", "u4FEE">>,
                    <<"u623F", "u5B50">>,
                    <<"u697C", "u5E02">>,
                    <<"u623F", "u8D37">>>>,
      category |-> "fangchan", sentiment |-> "zhongxing", name |-> <<"tpl13.name">>,
      function |-> "tpl13.function", users |-> "tpl13.users",
      hidden_need |-> "tpl13.hidden_need", creative_method |-> "tpl13.creative_method",
      business_value |-> "tpl13.business_value", innovation |-> "tpl13.innovation",
      barrier |-> "tpl13.barrier", score |-> 83],
     \* 14 (line 461): 宠物|猫|狗|萌宠|铲屎官|养猫|养狗 -> 宠物, 正面, 「毛孩语」宠物情绪翻译器
     [pattern |-> <<<<"u5BA0", "u7269">>,
                    <<"u732B">>,
                    <<"u72D7">>,
                    <<"u840C", "u5BA0">>,
                    <<"u94F2", "u5C4E", "u5B98">>,
                    <<"u517B", "u732B">>,
                    <<"u517B", "u72D7">>>>,
      category |-> "chongwu", sentiment |-> "zhengmian", name |-> <<"tpl14.name">>,
      function |-> "tpl14.function", users |-> "tpl14.users",
      hidden_need |-> "tpl14.hidden_need", creative_method |-> "tpl14.creative_method",
      business_value |-> "tpl14.business_value", innovation |-> "tpl14.innovation",
      barrier |-> "tpl14.barrier", score |-> 85],
     \* 15 (line 475): 日本|美国|俄罗斯|国际|外交|贸易|关税|制裁 -> 国际, 中性, 「世界观」地缘政治可视化
     [pattern |-> <<<<"u65E5", "u672C">>,
                    <<"u7F8E", "u56FD">>,
                    <<"u4FC4", "u7F57", "u65AF">>,
                    <<"u56FD", "u9645">>,
                    <<"u5916", "u4EA4">>,
                    <<"u8D38", "u6613">>,
                    <<"u5173", "u7A0E">>,
                    <<"u5236", "u88C1">>>>,
      category |-> "guoji", sentiment |-> "zhongxing", name |-> <<"tpl15.name">>,
      function |-> "tpl15.function", users |-> "tpl15.users",
      hidden_need |-> "tpl15.hidden_need", creative_method |-> "tpl15.creative_method",
      business_value |-> "tpl15.business_value", innovation |-> "tpl15.innovation",
      barrier |-> "tpl15.barrier", score |-> 81] >>

\* creative_templates: the three generic templates of the no-match branch;
\* the first one's name embeds title[:4].
creative_templates(title) ==
    << [name |-> <<"lquote">> \o Prefix(title, 4) \o <<"xiaoying_engine">>,
        function |-> "gen1.function", users |-> "gen1.users",
        hidden_need |-> "gen1.hidden_need",
        creative_method |-> "gen1.creative_method",
        business_value |-> "gen1.business_value",
        innovation |-> "gen1.innovation", barrier |-> "gen1.barrier",
        score |-> 76],
       [name |-> <<"gen2.name">>,
        function |-> "gen2.function", users |-> "gen2.users",
        hidden_need |-> "gen2.hidden_need",
        creative_method |-> "gen2.creative_method",
        business_value |-> "gen2.business_value",
        innovation |-> "gen2.innovation", barrier |-> "gen2.barrier",
        score |-> 79],
       [name |-> <<"gen3.name">>,
        function |-> "gen3.function", users |-> "gen3.users",
        hidden_need |-> "gen3.hidden_need",
        creative_method |-> "gen3.creative_method",
        business_value |-> "gen3.business_value",
        innovation |-> "gen3.innovation", barrier |-> "gen3.barrier",
        score |-> 82] >>

Choices == 1..3   \* what random.choice(creative_templates) may pick

\* Variant: the loop without its break, the last matching template wins.
FirstMatch_NoBreak(title) ==
    LET m == {i \in 1..Len(idea_templates) :
                 re_search(idea_templates[i].pattern, title)}
    IN  IF m = {} THEN 0 ELSE CHOOSE i \in m : \A j \in m : i >= j

\* The loop of lines 491-495 from template i on: the first template in
\* declaration order whose pattern matches (the loop breaks there), 0 when
\* none matches.
RECURSIVE FirstMatchFrom(_, _)
FirstMatchFrom(title, i) ==
    IF i > Len(idea_templates) THEN 0
    ELSE IF re_search(idea_templates[i].pattern, title) THEN i
    ELSE FirstMatchFrom(title, i + 1)

FirstMatch(title) == FirstMatchFrom(title, 1)

\* Variant: random.choice is reached whether or not a pattern matched, and
\* its pick replaces the product fields.
Selected_AlwaysRandom(title, choice) ==
    LET m == FirstMatch(title)
        t == creative_templates(title)[choice]
    IN  [category |-> IF m # 0 THEN idea_templates[m].category
                      ELSE "shehui_redian",
         sentiment |-> IF m # 0 THEN idea_templates[m].sentiment
                       ELSE "zhongxing",
         name |-> t.name, function |-> t.function, users |-> t.users,
         hidden_need |-> t.hidden_need,
         creative_method |-> t.creative_method,
         business_value |-> t.business_value,
         innovation |-> t.innovation, barrier |-> t.barrier,
         score |-> t.score]

\* `selected` after lines 491-537; choice is random.choice's pick.
Selected(title, choice) ==
    LET m == FirstMatch(title)
        t == IF m # 0 THEN idea_templates[m]
             ELSE creative_templates(title)[choice]
    IN  [category |-> IF m # 0 THEN t.category ELSE "shehui_redian",
         sentiment |-> IF m # 0 THEN t.sentiment ELSE "zhongxing",
         name |-> t.name, function |-> t.function, users |-> t.users,
         hidden_need |-> t.hidden_need,
         creative_method |-> t.creative_method,
         business_value |-> t.business_value,
         innovation |-> t.innovation, barrier |-> t.barrier,
         score |-> t.score]

\* Variant: both raised tiers clamp to 100.
AdjustScore_Cap100(base_score, heat) ==
    IF heat > 1000000 THEN Min(100, base_score + 8)
    ELSE IF heat > 500000 THEN Min(100, base_score + 4)
    ELSE base_score

\* Lines 539-546: the heat adjustment of the base score.
AdjustScore(base_score, heat) ==
    IF heat > 1000000 THEN Min(100, base_score + 8)
    ELSE IF heat > 500000 THEN Min(95, base_score + 4)
    ELSE base_score

\* Lines 548-558: the grade of a score.
\*   zhuoyue 卓越, youxiu 优秀, lianghao 良好, yiban 一般, jiaoruo 较弱
GradeOf(score) ==
    IF score >= 90 THEN "zhuoyue"
    ELSE IF score >= 80 THEN "youxiu"
    ELSE IF score >= 70 THEN "lianghao"
    ELSE IF score >= 60 THEN "yiban"
    ELSE "jiaoruo"

PyInt(n) == [type |-> "int", val |-> n]

analyze_hotspot_basic(title, heat, choice) ==
    LET selected == Selected(title, choice)
        score == AdjustScore(selected.score, heat)
    IN  [category |-> selected.category,
         sentiment |-> selected.sentiment,
         name |-> selected.name,
         function |-> selected.function,
         users |-> selected.users,
         hidden_need |-> selected.hidden_need,
         creative_method |-> selected.creative_method,
         business_value |-> selected.business_value,
         innovation |-> selected.innovation,
         barrier |-> selected.barrier,
         insight |-> "template_insight",
         score |-> PyInt(score),
         grade |-> GradeOf(score)]

\* The picks of random.choice over a batch: choices[i] is the pick of the
\* i-th call of analyze_hotspot_basic; a call whose title matches a pattern
\* does not reach random.choice, and its entry is fixed at 1.
ChoicesFor(hs) ==
    LET matched == {i \in 1..Len(hs) : FirstMatch(hs[i].title) # 0}
    IN  {c \in [1..Len(hs) -> Choices] : \A i \in matched : c[i] = 1}

\* analyze_basic: the rule-based analyzer over a whole batch.
analyze_basic(hs, choices) ==
    [i \in 1..Len(hs) |->
        [rank |-> hs[i].rank, title |-> hs[i].title, heat |-> hs[i].heat,
         tag |-> hs[i].tag,
         analysis |-> analyze_hotspot_basic(hs[i].title, hs[i].heat, choices[i])]]

-----------------------------------------------------------------------------
(* fetch_hotspots: one item of the topics source to one topic record.       *)

\* heat_str of line 94
heat_str(item) == strip(Get(item, "hotwordnum", <<"0">>))

\* Line 95 raises ValueError: int('') of a non-empty heat_str without digit.
ItemRaises(item) ==
    heat_str(item) # <<>> /\ int_raises(re_sub_nondigit(heat_str(item)))

\* Lines 93-103
TopicRecord(item, idx) ==
    [rank |-> idx,
     title |-> strip(Get(item, "hotword", <<>>)),
     heat |-> IF heat_str(item) # <<>>
              THEN int_digits(re_sub_nondigit(heat_str(item)))
              ELSE 0,
     tag |-> strip(Get(item, "hottag", <<>>))]

\* The index in result_list[:limit] at which the loop of lines 92-103
\* raises, 0 when it runs to its end.
FirstRaise(list, lim) ==
    LET bad == {i \in 1..Len(Prefix(list, lim)) : ItemRaises(list[i])}
    IN  IF bad = {} THEN 0 ELSE CHOOSE i \in bad : \A j \in bad : i <= j

\* self.hotspots when fetch_hotspots ends on a code-200 answer: every record
\* appended before the loop ended or raised.
AppendedHotspots(list, lim) ==
    LET n == IF FirstRaise(list, lim) = 0 THEN Len(Prefix(list, lim))
             ELSE FirstRaise(list, lim) - 1
    IN  [i \in 1..n |-> TopicRecord(list[i], i)]

\* What fetch_hotspots returns.
FetchReturn(resp, lim) ==
    IF resp.kind = "ok" /\ FirstRaise(resp.list, lim) = 0
    THEN AppendedHotspots(resp.list, lim)
    ELSE <<>>

-----------------------------------------------------------------------------
(* analyze_with_claude: the response text, its JSON array, the mapping.      *)

PyNone == [type |-> "NoneType", val |-> 0]
PyDict(f) == [type |-> "dict", val |-> f]

\* The response text is a sequence of tokens: a run of prose without
\* brackets, "[", "]", "," and one JSON value (free of bracket characters).
Prose == [tok |-> "prose", val |-> PyNone]
LB == [tok |-> "[", val |-> PyNone]
RB == [tok |-> "]", val |-> PyNone]
Comma == [tok |-> ",", val |-> PyNone]
Value(v) == [tok |-> "value", val |-> v]

\* re.search(r'\[[\s\S]*\]', response_text): the match runs from the first
\* "[" to the last "]" (the star is greedy); no match when no "]" follows
\* the first "[".  The empty sequence stands for None.
json_match(text) ==
    LET lbs == {i \in 1..Len(text) : text[i] = LB}
        rbs == {i \in 1..Len(text) : text[i] = RB}
    IN  IF lbs = {} \/ rbs = {} THEN <<>>
        ELSE LET first == CHOOSE i \in lbs : \A j \in lbs : i <= j
                 last == CHOOSE i \in rbs : \A j \in rbs : i >= j
             IN  IF first < last THEN SubSeq(text, first, last) ELSE <<>>

\* json.loads of a matched span "[" ... "]" accepts it when the tokens
\* between the brackets are values separated by single commas.
json_ok(span) ==
    LET inner == SubSeq(span, 2, Len(span) - 1)
    IN  /\ Len(span) >= 2
        /\ \/ inner = <<>>
           \/ /\ Len(inner) % 2 = 1
              /\ \A i \in 1..Len(inner) :
                    IF i % 2 = 1 THEN inner[i].tok = "value"
                    ELSE inner[i] = Comma

\* analysis_data: the parsed array.
json_loads(span) ==
    LET inner == SubSeq(span, 2, Len(span) - 1)
    IN  [i \in 1..((Len(inner) + 1) \div 2) |-> inner[2 * i - 1].val]

\* Lines 238-255: one parsed object mapped to an analysis; a field the
\* object lacks takes its default.
\*   redian_fenlei 热点分类, qinggan_qingxiang 情感倾向, chanpin_mingcheng
\*   产品名称, hexin_gongneng 核心功能, yonghu_huaxiang 用户画像,
\*   yincang_xuqiu 隐藏需求, chuangyi_laiyuan 创意来源, shangye_jiazhi
\*   商业价值, chuangxindian 创新点, jingzheng_bilei 竞争壁垒, fenxi_dongcha
\*   分析洞察, zonghe_pingfen 综合评分, pingfen_dengji 评分等级
MapAnalysis(d, title) ==
    [category |-> Get(d, "redian_fenlei", "weifenlei"),
     sentiment |-> Get(d, "qinggan_qingxiang", "zhongxing"),
     name |-> Get(d, "chanpin_mingcheng", title \o <<"chuangyi_chanpin">>),
     function |-> Get(d, "hexin_gongneng", "daifenxi"),
     users |-> Get(d, "yonghu_huaxiang", "guangda_yonghu"),
     hidden_need |-> Get(d, "yincang_xuqiu", ""),
     creative_method |-> Get(d, "chuangyi_laiyuan", ""),
     business_value |-> Get(d, "shangye_jiazhi", "daipinggu"),
     innovation |-> Get(d, "chuangxindian", ""),
     barrier |-> Get(d, "jingzheng_bilei", ""),
     insight |-> Get(d, "fenxi_dongcha", ""),
     score |-> Get(d, "zonghe_pingfen", PyInt(75)),
     grade |-> Get(d, "pingfen_dengji", "lianghao")]

\* The index at which the loop of lines 235-259 raises (analysis.get on a
\* value that is no dict: AttributeError), 0 when it runs to its end.
MapRaise(hs, data) ==
    LET bad == {i \in 1..Min(Len(hs), Len(data)) : data[i].type # "dict"}
    IN  IF bad = {} THEN 0 ELSE CHOOSE i \in bad : \A j \in bad : i <= j

\* Variant: the loop walks the topics and the parsed array in step and ends
\* with the shorter of the two.
MapResults_Zip(hs, data, choices) ==
    [i \in 1..Min(Len(hs), Len(data)) |->
        [rank |-> hs[i].rank, title |-> hs[i].title, heat |-> hs[i].heat,
         tag |-> hs[i].tag,
         analysis |-> MapAnalysis(data[i].val, hs[i].title)]]

\* Variant: the bound of line 236 is off by one, the last parsed object is
\* not used.
MapResults_OffByOne(hs, data, choices) ==
    [i \in 1..Len(hs) |->
        [rank |-> hs[i].rank, title |-> hs[i].title, heat |-> hs[i].heat,
         tag |-> hs[i].tag,
         analysis |->
            IF i < Len(data)
            THEN MapAnalysis(data[i].val, hs[i].title)
            ELSE analyze_hotspot_basic(hs[i].title, hs[i].heat, choices[i])]]

\* `results` when the loop of lines 235-259 runs to its end.
MapResults(hs, data, choices) ==
    [i \in 1..Len(hs) |->
        [rank |-> hs[i].rank, title |-> hs[i].title, heat |-> hs[i].heat,
         tag |-> hs[i].tag,
         analysis |->
            IF i <= Len(data)
            THEN MapAnalysis(data[i].val, hs[i].title)
            ELSE analyze_hotspot_basic(hs[i].title, hs[i].heat, choices[i])]]

\* The try block of lines 217-272 ends in a return of analyze_basic: the
\* call raised, no array was found, json.loads raised or the mapping raised.
ClaudeFailed(hs, resp) ==
    \/ resp.kind # "text"
    \/ json_match(resp.text) = <<>>
    \/ ~json_ok(json_match(resp.text))
    \/ MapRaise(hs, json_loads(json_match(resp.text))) # 0

\* Variant: a mapping that raises at element k keeps the records mapped
\* before it and fills the rest with the rule-based analyzer.
analyze_with_claude_KeepMapped(hs, resp, choices) ==
    IF \/ resp.kind # "text"
       \/ json_match(resp.text) = <<>>
       \/ ~json_ok(json_match(resp.text))
    THEN analyze_basic(hs, choices)
    ELSE LET data == json_loads(json_match(resp.text))
             k == MapRaise(hs, data)
         IN  IF k = 0 THEN MapResults(hs, data, choices)
             ELSE [i \in 1..Len(hs) |->
                     IF i < k THEN MapResults(hs, data, choices)[i]
                     ELSE analyze_basic(hs, choices)[i]]

\* What analyze_with_claude returns (self.claude_client set).
analyze_with_claude(hs, resp, choices) ==
    IF ClaudeFailed(hs, resp)
    THEN analyze_basic(hs, choices)
    ELSE MapResults(hs, json_loads(json_match(resp.text)), choices)

\* The number of analyze_hotspot_basic calls analyze_with_claude makes.
ClaudeBasicCalls(hs, resp) ==
    IF ClaudeFailed(hs, resp) THEN Len(hs)
    ELSE Len(hs) - Min(Len(hs), Len(json_loads(json_match(resp.text))))

-----------------------------------------------------------------------------
(* generate_markdown_report: the header and the aggregates.                 *)

RECURSIVE SumScores(_)
SumScores(rs) ==
    IF rs = <<>> THEN 0 ELSE Head(rs).analysis.score.val + SumScores(Tail(rs))

\* sum(1 for r in ... if r['analysis'][field] == value)
CountField(rs, field, value) ==
    Cardinality({i \in 1..Len(rs) : rs[i].analysis[field] = value})

\* line 602, sum(r['analysis']['score'] ...): adding a score that is no
\* number to the running total raises TypeError.
report_raises(rs) ==
    \E i \in 1..Len(rs) : rs[i].analysis.score.type # "int"

generate_markdown_report(client, rs) ==
    [engine |-> IF client THEN "Claude Agent SDK" ELSE "jichu_guize_yinqing",
     count |-> Len(rs),
     excellent_count |-> CountField(rs, "grade", "youxiu"),
     good_count |-> CountField(rs, "grade", "lianghao"),
     score_sum |-> SumScores(rs),
     categories |->
        [c \in {rs[i].analysis.category : i \in 1..Len(rs)} |->
            CountField(rs, "category", c)],
     sentiments |->
        [s \in {"zhengmian", "zhongxing", "fumian"} |->
            CountField(rs, "sentiment", s)]]

NoReport ==
    [engine |-> "none", count |-> 0, excellent_count |-> 0, good_count |-> 0,
     score_sum |-> 0, categories |-> [c \in {} |-> 0],
     sentiments |-> [s \in {} |-> 0]]

-----------------------------------------------------------------------------
(* The inputs the model draws from.                                         *)

\* Items of the topics source's result list.
Items ==
    { \* " AI产品发布 ", "1,200,000", tag "新"
      [hotword |-> <<" ", "A", "I", "u4EA7", "u54C1", "u53D1", "u5E03", " ">>,
       hotwordnum |-> <<"1", ",", "2", "0", "0", ",", "0", "0", "0">>,
       hottag |-> <<"u65B0">>],
      \* "苹果", "", no tag: no pattern matches the title
      [hotword |-> <<"u82F9", "u679C">>,
       hotwordnum |-> <<>>],
      \* "地震", "爆", tag "热": a heat string without a digit
      [hotword |-> <<"u5730", "u9707">>,
       hotwordnum |-> <<"u7206">>,
       hottag |-> <<"u70ED">>] }

RECURSIVE SeqsUpTo(_, _)
SeqsUpTo(S, n) ==
    IF n = 0 THEN {<<>>}
    ELSE LET shorter == SeqsUpTo(S, n - 1)
         IN  shorter \cup {Append(s, x) : s \in shorter, x \in S}

ApiResponses ==
    {[kind |-> k, list |-> <<>>] :
        k \in {"timeout", "connection_error", "http_error", "error_code"}}
    \cup {[kind |-> "ok", list |-> l] : l \in SeqsUpTo(Items, MaxEntries)}

\* Values of the JSON array of a generation response.
\* every recognised field; the score 95 comes with the grade 优秀
FullObject ==
    PyDict([redian_fenlei |-> "keji", qinggan_qingxiang |-> "zhengmian",
            chanpin_mingcheng |-> <<"resp.name">>,
            hexin_gongneng |-> "resp.function",
            yonghu_huaxiang |-> "resp.users",
            yincang_xuqiu |-> "resp.hidden_need",
            chuangyi_laiyuan |-> "resp.creative_method",
            shangye_jiazhi |-> "resp.business_value",
            chuangxindian |-> "resp.innovation",
            jingzheng_bilei |-> "resp.barrier",
            fenxi_dongcha |-> "resp.insight",
            zonghe_pingfen |-> PyInt(95), pingfen_dengji |-> "youxiu"])

\* no recognised field at all
BareObject == PyDict([beizhu |-> "resp.note"])

\* a score outside the scale, no grade, a sentiment outside the three
OffScaleObject ==
    PyDict([zonghe_pingfen |-> PyInt(150), qinggan_qingxiang |-> "fuza"])

\* "综合评分": "85": the score as a JSON string; val is the number it spells
TextScoreObject ==
    PyDict([zonghe_pingfen |-> [type |-> "str", val |-> 85],
            pingfen_dengji |-> "youxiu"])

\* a value that is no object
Number == PyInt(1)

JsonValues == {FullObject, BareObject, OffScaleObject, Number}

RECURSIVE Render(_)
Render(values) ==
    IF values = <<>> THEN <<>>
    ELSE IF Len(values) = 1 THEN <<Value(values[1])>>
    ELSE <<Value(values[1]), Comma>> \o Render(Tail(values))

ArrayText(values) == <<LB>> \o Render(values) \o <<RB>>

ResponseTexts ==
    {ArrayText(a) : a \in SeqsUpTo(JsonValues, MaxArray)}
    \cup { <<Prose>>,                                       \* no bracket
           <<Prose, LB, Value(FullObject)>>,                \* never closed
           <<RB, Prose, LB>>,                               \* "]" before "["
           <<LB, Value(FullObject), Value(FullObject), RB>>, \* no comma
           <<LB, Value(FullObject), Comma, RB>>,            \* trailing comma
           <<LB, Prose, RB>>,                               \* "[see below]"
           <<Prose>> \o ArrayText(<<FullObject>>) \o <<Prose>>,
           <<Prose>> \o ArrayText(<<BareObject, FullObject>>) \o <<Prose>>,
           ArrayText(<<FullObject>>) \o <<Prose, RB>>,
           ArrayText(<<FullObject>>) \o <<Prose>> \o ArrayText(<<Number>>),
           ArrayText(<<TextScoreObject>>) }

ClaudeResponses ==
    {[kind |-> k, text |-> <<>>] : k \in {"api_error", "exception"}}
    \cup {[kind |-> "text", text |-> t] : t \in ResponseTexts}

NoResponse == [kind |-> "none", text |-> <<>>]

-----------------------------------------------------------------------------
(* The run of main().                                                       *)

NoUnit == [called |-> FALSE, title |-> <<>>, heat |-> 0, choice |-> 1,
           result |-> analyze_hotspot_basic(<<>>, 0, 1), earlier |-> <<>>]

Init ==
    /\ pc = "start"
    /\ tianapi_key \in BOOLEAN
    /\ anthropic_key \in BOOLEAN
    /\ CLAUDE_AVAILABLE \in BOOLEAN
    /\ client_init_ok \in BOOLEAN
    /\ use_claude \in BOOLEAN
    /\ limit \in 1..MaxLimit
    /\ output_file \in BOOLEAN
    /\ claude_client = FALSE
    /\ api_response = [kind |-> "none", list |-> <<>>]
    /\ self_hotspots = <<>>
    /\ hotspots = <<>>
    /\ claude_response = NoResponse
    /\ analysis_results = <<>>
    /\ path = "none"
    /\ report = NoReport
    /\ returned = "none"
    /\ file_written = FALSE
    /\ exit_code = -1
    /\ fetch_requests = 0
    /\ claude_requests = 0
    /\ basic_calls = 0
    /\ unit = NoUnit

\* Variant: the client is built without looking at the key.
InitClient_IgnoreKey(available, key, init_ok) == available /\ init_ok

\* Lines 56-67: the client __init__ leaves in self.claude_client.
InitClient(available, key, init_ok) == available /\ key /\ init_ok

\* Variant: the run goes on with an empty list.
NothingFetched_Never(hs) == FALSE

\* run_analysis line 735: `if not hotspots`.
NothingFetched(hs) == hs = <<>>

\* Construct with main's configuration-error handler exiting with 0.
Construct_ExitZero ==
    /\ pc = "start"
    /\ IF ~tianapi_key
       THEN /\ pc' = "exited"
            /\ exit_code' = 0
            /\ UNCHANGED claude_client
       ELSE /\ pc' = "constructed"
            /\ claude_client' =
                  InitClient(CLAUDE_AVAILABLE, anthropic_key, client_init_ok)
            /\ UNCHANGED exit_code
    /\ UNCHANGED <<tianapi_key, anthropic_key, CLAUDE_AVAILABLE,
                   client_init_ok, use_claude, limit, output_file,
                   api_response, self_hotspots, hotspots, claude_response,
                   analysis_results, path, report, returned, file_written,
                   fetch_requests, claude_requests, basic_calls, unit>>

\* main, lines 810-812 and 825-827: WeiboTrendsAnalyzer() raises ValueError
\* without the topics-source key (line 48) and main exits with status 1;
\* otherwise the analyzer is constructed.
Construct ==
    /\ pc = "start"
    /\ IF ~tianapi_key
       THEN /\ pc' = "exited"
            /\ exit_code' = 1
            /\ UNCHANGED claude_client
       ELSE /\ pc' = "constructed"
            /\ claude_client' =
                  InitClient(CLAUDE_AVAILABLE, anthropic_key, client_init_ok)
            /\ UNCHANGED exit_code
    /\ UNCHANGED <<tianapi_key, anthropic_key, CLAUDE_AVAILABLE,
                   client_init_ok, use_claude, limit, output_file,
                   api_response, self_hotspots, hotspots, claude_response,
                   analysis_results, path, report, returned, file_written,
                   fetch_requests, claude_requests, basic_calls, unit>>

\* Variant: a timed-out request is repeated, up to three requests.
FetchHotspots_Retry ==
    /\ \/ pc = "constructed"
       \/ pc = "fetched" /\ api_response.kind = "timeout" /\ fetch_requests < 3
    /\ \E resp \in ApiResponses :
          /\ api_response' = resp
          /\ self_hotspots' = IF resp.kind = "ok"
                              THEN AppendedHotspots(resp.list, limit)
                              ELSE self_hotspots
          /\ hotspots' = FetchReturn(resp, limit)
    /\ fetch_requests' = fetch_requests + 1
    /\ pc' = "fetched"
    /\ UNCHANGED <<tianapi_key, anthropic_key, CLAUDE_AVAILABLE,
                   client_init_ok, use_claude, limit, output_file,
                   claude_client, claude_response, analysis_results, path,
                   report, returned, file_written, exit_code,
                   claude_requests, basic_calls, unit>>

\* run_analysis line 734: fetch_hotspots(limit), one request.
FetchHotspots ==
    /\ pc = "constructed"
    /\ \E resp \in ApiResponses :
          /\ api_response' = resp
          /\ self_hotspots' = IF resp.kind = "ok"
                              THEN AppendedHotspots(resp.list, limit)
                              ELSE self_hotspots
          /\ hotspots' = FetchReturn(resp, limit)
    /\ fetch_requests' = fetch_requests + 1
    /\ pc' = "fetched"
    /\ UNCHANGED <<tianapi_key, anthropic_key, CLAUDE_AVAILABLE,
                   client_init_ok, use_claude, limit, output_file,
                   claude_client, claude_response, analysis_results, path,
                   report, returned, file_written, exit_code,
                   claude_requests, basic_calls, unit>>

\* run_analysis lines 735-737, then main lines 822-823: nothing fetched, the
\* run returns "" and main exits with status 0.
NoHotspots ==
    /\ pc = "fetched"
    /\ NothingFetched(hotspots)
    /\ returned' = "empty"
    /\ exit_code' = 0
    /\ pc' = "exited"
    /\ UNCHANGED <<tianapi_key, anthropic_key, CLAUDE_AVAILABLE,
                   client_init_ok, use_claude, limit, output_file,
                   claude_client, api_response, self_hotspots, hotspots,
                   claude_response, analysis_results, path, report,
                   file_written, fetch_requests, claude_requests,
                   basic_calls, unit>>

\* run_analysis lines 740-741: analyze_with_claude, one generation request.
AnalyzeWithClaude ==
    /\ pc = "fetched"
    /\ ~NothingFetched(hotspots)
    /\ use_claude /\ claude_client
    /\ \E resp \in ClaudeResponses :
       \E choices \in ChoicesFor(hotspots) :
          /\ claude_response' = resp
          /\ analysis_results' = analyze_with_claude(hotspots, resp, choices)
          /\ path' = IF ClaudeFailed(hotspots, resp)
                     THEN "claude_fallback" ELSE "claude"
          /\ basic_calls' = basic_calls + ClaudeBasicCalls(hotspots, resp)
    /\ claude_requests' = claude_requests + 1
    /\ pc' = "analyzed"
    /\ UNCHANGED <<tianapi_key, anthropic_key, CLAUDE_AVAILABLE,
                   client_init_ok, use_claude, limit, output_file,
                   claude_client, api_response, self_hotspots, hotspots,
                   report, returned, file_written, exit_code,
                   fetch_requests, unit>>

\* run_analysis lines 742-743: analyze_basic.
AnalyzeBasic ==
    /\ pc = "fetched"
    /\ ~NothingFetched(hotspots)
    /\ ~(use_claude /\ claude_client)
    /\ \E choices \in ChoicesFor(hotspots) :
          analysis_results' = analyze_basic(hotspots, choices)
    /\ path' = "basic"
    /\ basic_calls' = basic_calls + Len(hotspots)
    /\ pc' = "analyzed"
    /\ UNCHANGED <<tianapi_key, anthropic_key, CLAUDE_AVAILABLE,
                   client_init_ok, use_claude, limit, output_file,
                   claude_client, api_response, self_hotspots, hotspots,
                   claude_response, report, returned, file_written,
                   exit_code, fetch_requests, claude_requests, unit>>

\* run_analysis lines 745-760, then main lines 822-830: the report is
\* rendered, written when -o was given, returned, and main exits with 0.
\* An exception of the rendering (report_raises) or of the write at lines
\* 755-757 (write_ok false: the directory or the file cannot be created)
\* leaves run_analysis, and main's "except Exception" exits with 1.
Report ==
    /\ pc = "analyzed"
    /\ \E write_ok \in (IF output_file THEN BOOLEAN ELSE {TRUE}) :
          LET rendered == ~report_raises(analysis_results)
              raised == ~rendered \/ ~write_ok
          IN  /\ report' = IF rendered
                           THEN generate_markdown_report(claude_client,
                                                         analysis_results)
                           ELSE NoReport
              /\ file_written' = (output_file /\ ~raised)
              /\ returned' = IF raised THEN "none" ELSE "report"
              /\ exit_code' = IF raised THEN 1 ELSE 0
    /\ pc' = "exited"
    /\ UNCHANGED <<tianapi_key, anthropic_key, CLAUDE_AVAILABLE,
                   client_init_ok, use_claude, limit, output_file,
                   claude_client, api_response, self_hotspots, hotspots,
                   claude_response, analysis_results, path, fetch_requests,
                   claude_requests, basic_calls, unit>>

-----------------------------------------------------------------------------
(* analyze_hotspot_basic on its own: one call with any title of UnitTitles  *)
(* and any heat of UnitHeats.                                               *)

UnitTitles ==
    { <<"A", "I", "u4EA7", "u54C1", "u53D1", "u5E03">>,  \* "AI产品发布"
      <<"u706B", "u707E">>,  \* "火灾"
      <<"u7BEE", "u7403">>,  \* "篮球"
      <<"u592A", "u7A7A">>,  \* "太空"
      <<"u7535", "u5F71">>,  \* "电影"
      <<"u624B", "u673A">>,  \* "手机"
      <<"u4EBA", "u5DE5", "u667A", "u80FD">>,  \* "人工智能"
      <<"u80A1", "u7968">>,  \* "股票"
      <<"u6625", "u8FD0">>,  \* "春运"
      <<"u660E", "u661F">>,  \* "明星"
      <<"u7ACB", "u6625">>,  \* "立春"
      <<"u7F8E", "u98DF">>,  \* "美食"
      <<"u8003", "u8BD5">>,  \* "考试"
      <<"u623F", "u4EF7">>,  \* "房价"
      <<"u5BA0", "u7269">>,  \* "宠物"
      <<"u65E5", "u672C">>,  \* "日本"
      <<"u624B", "u673A", "A", "I">>,  \* "手机AI"
      <<"A", "I", "u673A", "u5668", "u4EBA", "u5730", "u9707">>,  \* "AI机器人地震"
      <<"u732B", "u5403", "u706B", "u9505">>,  \* "猫吃火锅"
      <<"i", "p", "h", "o", "n", "e">>,  \* "iphone"
      <<"I", "D", "O", "L">>,  \* "IDOL"
      <<"a", "i", "u7ED8", "u753B">>,  \* "ai绘画"
      <<"u82F9", "u679C", "1", "5">>,  \* "苹果15"
      <<"u82F9", "u679C">>,  \* "苹果"
      <<"u5929", "u6C14">>,  \* "天气"
      <<>> }  \* ""

UnitHeats == {0, 500000, 500001, 1000000, 1000001}

InitBasic ==
    /\ Init
    /\ tianapi_key /\ anthropic_key /\ CLAUDE_AVAILABLE /\ client_init_ok
    /\ use_claude /\ limit = 1 /\ output_file

UnitCall ==
    /\ ~unit.called
    /\ \E title \in UnitTitles, heat \in UnitHeats, choice \in Choices :
          unit' = [called |-> TRUE, title |-> title, heat |-> heat,
                   choice |-> choice,
                   result |-> analyze_hotspot_basic(title, heat, choice),
                   earlier |-> <<>>]
    /\ UNCHANGED <<pc, tianapi_key, anthropic_key, CLAUDE_AVAILABLE,
                   client_init_ok, use_claude, limit, output_file,
                   claude_client, api_response, self_hotspots, hotspots,
                   claude_response, analysis_results, path, report, returned,
                   file_written, exit_code, fetch_requests, claude_requests,
                   basic_calls>>

SpecBasic == InitBasic /\ [][UnitCall]_vars

-----------------------------------------------------------------------------
(* analyze_hotspot_basic called several times in one process: the calls of  *)
(* analyze_basic's loop (lines 579-582) over topics in any order.  Nothing  *)
(* of a call outlives it but the state of the random module's generator,    *)
(* which decides the pick of the next random.choice (line 536); choice is   *)
(* that pick, and a call whose title matches a pattern never reads it.      *)

MaxCalls == 3      \* calls of analyze_hotspot_basic in one process

\* "手机AI" (two patterns match), "苹果" (none)
RepeatTitles == { <<"u624B", "u673A", "A", "I">>, <<"u82F9", "u679C">> }

RepeatHeats == {0, 1000001}

\* The calls made so far, oldest first.
UnitCalls ==
    IF unit.called
    THEN Append(unit.earlier,
                [title |-> unit.title, heat |-> unit.heat,
                 choice |-> unit.choice, result |-> unit.result])
    ELSE <<>>

RepeatCall ==
    /\ Len(UnitCalls) < MaxCalls
    /\ \E title \in RepeatTitles, heat \in RepeatHeats, choice \in Choices :
          unit' = [called |-> TRUE, title |-> title, heat |-> heat,
                   choice |-> choice,
                   result |-> analyze_hotspot_basic(title, heat, choice),
                   earlier |-> UnitCalls]
    /\ UNCHANGED <<pc, tianapi_key, anthropic_key, CLAUDE_AVAILABLE,
                   client_init_ok, use_claude, limit, output_file,
                   claude_client, api_response, self_hotspots, hotspots,
                   claude_response, analysis_results, path, report, returned,
                   file_written, exit_code, fetch_requests, claude_requests,
                   basic_calls>>

SpecRepeat == InitBasic /\ [][RepeatCall]_vars

-----------------------------------------------------------------------------
Next ==
    \/ Construct
    \/ FetchHotspots
    \/ NoHotspots
    \/ AnalyzeWithClaude
    \/ AnalyzeBasic
    \/ Report

Spec == Init /\ [][Next]_vars

-----------------------------------------------------------------------------
(* Properties.                                                              *)

\* The record r carries the topic h.
SameTopic(r, h) ==
    r.rank = h.rank /\ r.title = h.title /\ r.heat = h.heat /\ r.tag = h.tag

\* The analysis of r is a result of the rule-based analyzer for r's topic.
IsBasicResult(r) ==
    \E choice \in Choices :
        r.analysis = analyze_hotspot_basic(r.title, r.heat, choice)

AnalysisFields ==
    {"category", "sentiment", "name", "function", "users", "hidden_need",
     "creative_method", "business_value", "innovation", "barrier", "insight",
     "score", "grade"}

\* The array parsed from the response text.
ParsedArray == json_loads(json_match(claude_response.text))

\* C1: once run_analysis has stored a batch, on either path, the batch is as
\* long as the non-empty fetched list and its i-th record carries the rank,
\* title, heat and tag of the i-th topic together with exactly one analysis.
C1_OneAnalysisPerTopic ==
    path # "none" =>
        /\ hotspots # <<>>
        /\ Len(analysis_results) = Len(hotspots)
        /\ \A i \in 1..Len(hotspots) :
              /\ DOMAIN analysis_results[i] =
                    {"rank", "title", "heat", "tag", "analysis"}
              /\ SameTopic(analysis_results[i], hotspots[i])
              /\ DOMAIN analysis_results[i].analysis = AnalysisFields

\* The model-backed path succeeded on an array longer than the batch.
C1_Witness ==
    /\ path = "claude"
    /\ Len(ParsedArray) > Len(hotspots)
    /\ Len(analysis_results) = Len(hotspots)

\* The model-backed path failed: the call raised, the text holds no
\* bracketed array, the span is no JSON, or the mapping raised at an element.
ModelPathFailure ==
    /\ claude_requests = 1
    /\ \/ claude_response.kind \in {"api_error", "exception"}
       \/ /\ claude_response.kind = "text"
          /\ \/ json_match(claude_response.text) = <<>>
             \/ ~json_ok(json_match(claude_response.text))
             \/ \E k \in 1..Min(Len(hotspots), Len(ParsedArray)) :
                   ParsedArray[k].type # "dict"

\* C2: after any failure of the model-backed path analyze_with_claude has
\* returned normally, and the batch has the input's length and order with
\* every record analysed by the rule-based analyzer: no mapped record is left.
C2_FailureFallsBackWhole ==
    ModelPathFailure =>
        /\ pc \in {"analyzed", "exited"}
        /\ pc = "analyzed" => exit_code = -1
        /\ path = "claude_fallback"
        /\ Len(analysis_results) = Len(hotspots)
        /\ \A i \in 1..Len(hotspots) :
              /\ SameTopic(analysis_results[i], hotspots[i])
              /\ IsBasicResult(analysis_results[i])

\* The mapping raised at the second element or later, after at least one
\* object had been mapped.
C2_Witness ==
    /\ path = "claude_fallback"
    /\ claude_response.kind = "text"
    /\ json_match(claude_response.text) # <<>>
    /\ json_ok(json_match(claude_response.text))
    /\ MapRaise(hotspots, ParsedArray) >= 2

\* C3: a client is configured exactly when the key is present, the library
\* available and the construction succeeded; a generation call is never
\* issued unless use_claude holds and the client is configured; in a run that
\* analyses a batch the call is issued exactly in that case, and otherwise
\* the whole batch comes from the rule-based analyzer without any call.
C3_GenerationCallIffConfigured ==
    /\ claude_client <=>
          (pc # "start" /\ tianapi_key /\ CLAUDE_AVAILABLE /\ anthropic_key
             /\ client_init_ok)
    /\ claude_requests > 0 => (use_claude /\ claude_client)
    /\ path # "none" =>
          ((claude_requests = 1) <=> (use_claude /\ claude_client))
    /\ (path # "none" /\ ~(use_claude /\ claude_client)) =>
          /\ path = "basic"
          /\ claude_requests = 0
          /\ \A i \in 1..Len(analysis_results) :
                IsBasicResult(analysis_results[i])

\* The call was issued in a run with use_claude and a configured client.
C3_Witness ==
    /\ claude_requests = 1
    /\ use_claude /\ anthropic_key /\ CLAUDE_AVAILABLE /\ client_init_ok
    /\ path = "claude"

\* The recognised fields of a response object and the analysis fields they
\* fill.
FieldOf ==
    [redian_fenlei |-> "category", qinggan_qingxiang |-> "sentiment",
     chanpin_mingcheng |-> "name", hexin_gongneng |-> "function",
     yonghu_huaxiang |-> "users", yincang_xuqiu |-> "hidden_need",
     chuangyi_laiyuan |-> "creative_method",
     shangye_jiazhi |-> "business_value", chuangxindian |-> "innovation",
     jingzheng_bilei |-> "barrier", fenxi_dongcha |-> "insight",
     zonghe_pingfen |-> "score", pingfen_dengji |-> "grade"]

\* C4: when the response parses to k objects, k below the batch length n,
\* records 1..k carry the parsed fields (a missing product name is the title
\* followed by 创意产品, a missing score 75, a missing grade 良好) and exactly
\* records k+1..n are results of the rule-based analyzer for their topic.
C4_ShortArrayBackfilled ==
    (path = "claude" /\ Len(ParsedArray) < Len(hotspots)) =>
        /\ Len(analysis_results) = Len(hotspots)
        /\ \A i \in 1..Len(ParsedArray) :
              LET d == ParsedArray[i].val
                  a == analysis_results[i].analysis
              IN  /\ SameTopic(analysis_results[i], hotspots[i])
                  /\ \A key \in DOMAIN FieldOf :
                        key \in DOMAIN d => a[FieldOf[key]] = d[key]
                  /\ "chanpin_mingcheng" \notin DOMAIN d =>
                        a.name = hotspots[i].title \o <<"chuangyi_chanpin">>
                  /\ "zonghe_pingfen" \notin DOMAIN d => a.score = PyInt(75)
                  /\ "pingfen_dengji" \notin DOMAIN d => a.grade = "lianghao"
        /\ \A i \in (Len(ParsedArray) + 1)..Len(hotspots) :
              /\ SameTopic(analysis_results[i], hotspots[i])
              /\ IsBasicResult(analysis_results[i])

\* One object without score was parsed for a batch of two or more.
C4_Witness ==
    /\ path = "claude"
    /\ Len(ParsedArray) >= 1
    /\ Len(ParsedArray) < Len(hotspots)
    /\ "zonghe_pingfen" \notin DOMAIN ParsedArray[1].val
    /\ analysis_results[1].analysis.score = PyInt(75)

\* The base score of the template the call selected, and the heat bonus.
UnitBase == Selected(unit.title, unit.choice).score

UnitBonus ==
    IF unit.heat > 1000000 THEN 8 ELSE IF unit.heat > 500000 THEN 4 ELSE 0

\* C5 as stated: the score is min(100, base + bonus) with bonus 8 above
\* 1,000,000, 4 above 500,000 and 0 otherwise; 100 is the only clamp.
C5_ScoreClampedAt100Only ==
    unit.called =>
        unit.result.score = PyInt(Min(100, UnitBase + UnitBonus))

\* C5 amended: the score is min(100, base + 8) when heat > 1,000,000,
\* min(95, base + 4) when 500,000 < heat <= 1,000,000 and the base score
\* itself, unclamped, otherwise.
C5_ScoreClampedPerTier ==
    unit.called =>
        unit.result.score =
            PyInt(IF unit.heat > 1000000 THEN Min(100, UnitBase + 8)
                  ELSE IF unit.heat > 500000 THEN Min(95, UnitBase + 4)
                  ELSE UnitBase)

\* A middle-tier call whose base + 4 exceeds 95.
C5_Witness ==
    /\ unit.called
    /\ unit.heat > 500000 /\ unit.heat <= 1000000
    /\ UnitBase + 4 > 95
    /\ unit.result.score = PyInt(95)

\* C6 as stated: every record of a stored batch has an integer score within
\* 0..100, whichever analyzer produced it.
C6_ScoreWithinScale ==
    \A i \in 1..Len(analysis_results) :
        /\ analysis_results[i].analysis.score.type = "int"
        /\ analysis_results[i].analysis.score.val \in 0..100

\* C7 as stated: in every record of a stored batch the grade is the one the
\* thresholds 90, 80, 70, 60 fix for the record's score.
C7_GradeFixedByScore ==
    \A i \in 1..Len(analysis_results) :
        LET score == analysis_results[i].analysis.score.val
        IN  analysis_results[i].analysis.grade =
                IF score >= 90 THEN "zhuoyue"
                ELSE IF score >= 80 THEN "youxiu"
                ELSE IF score >= 70 THEN "lianghao"
                ELSE IF score >= 60 THEN "yiban"
                ELSE "jiaoruo"

\* Two characters are equal up to the case of a letter.
SameUpToCase(a, b) ==
    a = b \/ \E i \in 1..26 : {a, b} = {UpperCase[i], LowerCase[i]}

\* A keyword of the pattern occurs in the title, letters compared without
\* case, \d standing for a digit.
OccursIn(pattern, title) ==
    \E k \in 1..Len(pattern) :
        \E pos \in 1..(Len(title) - Len(pattern[k]) + 1) :
            \A j \in 1..Len(pattern[k]) :
                IF pattern[k][j] = "\\d"
                THEN title[pos + j - 1] \in {Digits[n] : n \in 1..10}
                ELSE SameUpToCase(pattern[k][j], title[pos + j - 1])

\* The declared patterns that match the title of the call.
UnitMatches ==
    {i \in 1..Len(idea_templates) :
        OccursIn(idea_templates[i].pattern, unit.title)}

\* C8: the result is built from the template of the earliest-declared
\* matching pattern, also when later patterns match (a title with 手机 and
\* AI gets the consumer-electronics template), and from a generic template
\* exactly when no declared pattern matches.
C8_FirstDeclaredPatternWins ==
    unit.called =>
        /\ UnitMatches # {} =>
              LET first == CHOOSE i \in UnitMatches :
                               \A j \in UnitMatches : i <= j
                  t == idea_templates[first]
              IN  /\ unit.result.name = t.name
                  /\ unit.result.category = t.category
                  /\ unit.result.sentiment = t.sentiment
                  /\ unit.result.function = t.function
                  /\ UnitBase = t.score
        /\ (UnitMatches = {}) <=>
              /\ unit.result.category = "shehui_redian"
              /\ \E c \in Choices :
                    unit.result.name = creative_templates(unit.title)[c].name
        /\ ( /\ OccursIn(<< <<"u624B", "u673A">> >>, unit.title)
             /\ OccursIn(<< <<"A", "I">> >>, unit.title) ) =>
              unit.result.category = "xiaofei_dianzi"

\* A title with 手机 and AI: the patterns 5 and 6 both match.
C8_Witness ==
    /\ unit.called
    /\ unit.title = <<"u624B", "u673A", "A", "I">>
    /\ {5, 6} \subseteq UnitMatches
    /\ unit.result.category = "xiaofei_dianzi"

\* The fetch ended in a timeout, a transport error, a non-success status
\* (HTTP status or the code field) or an empty result list.
FetchFailed ==
    \/ api_response.kind \in
          {"timeout", "connection_error", "http_error", "error_code"}
    \/ api_response.kind = "ok" /\ api_response.list = <<>>

\* C9: after a failed fetch no analyzer is invoked (no generation call, no
\* rule-based analysis), no report is rendered or written, and the run ends
\* by returning the empty text.
C9_FetchFailureEndsRun ==
    FetchFailed =>
        /\ pc \in {"fetched", "exited"}
        /\ claude_requests = 0
        /\ basic_calls = 0
        /\ path = "none"
        /\ analysis_results = <<>>
        /\ report.engine = "none"
        /\ ~file_written
        /\ pc = "exited" => (returned = "empty" /\ exit_code = 0)

\* A run with a configured client and an output file ended on an empty list.
C9_Witness ==
    /\ pc = "exited"
    /\ api_response.kind = "ok" /\ api_response.list = <<>>
    /\ use_claude /\ claude_client /\ output_file
    /\ returned = "empty"

\* C10 as stated: on a code-200 answer fetch_hotspots returns the records of
\* all of the first `limit` items; an item whose heat string is non-empty
\* without a digit gets heat 0, an item without tag the empty tag.
C10_MalformedFieldsRecovered ==
    (pc \in {"fetched", "analyzed", "exited"} /\ api_response.kind = "ok") =>
        LET n == Min(limit, Len(api_response.list))
        IN  /\ Len(hotspots) = n
            /\ \A i \in 1..n :
                  LET item == api_response.list[i]
                  IN  /\ hotspots[i].rank = i
                      /\ ( /\ "hotwordnum" \in DOMAIN item
                           /\ item.hotwordnum # <<>>
                           /\ \A j \in 1..Len(item.hotwordnum) :
                                 item.hotwordnum[j] \notin
                                    {Digits[d] : d \in 1..10} )
                            => hotspots[i].heat = 0
                      /\ "hottag" \notin DOMAIN item => hotspots[i].tag = <<>>


\* C11 as stated: the exit status is non-zero exactly when the topics-source
\* key is missing, and then nothing was fetched, analysed or reported; a run
\* ended by a failed fetch and a run that fell back both exit with 0.
C11_ExitNonZeroOnlyOnConfigError ==
    pc = "exited" =>
        /\ exit_code # 0 <=> ~tianapi_key
        /\ ~tianapi_key =>
              /\ fetch_requests = 0 /\ claude_requests = 0 /\ basic_calls = 0
              /\ analysis_results = <<>> /\ report.engine = "none"
        /\ FetchFailed => exit_code = 0
        /\ path = "claude_fallback" => exit_code = 0

\* The report cannot be rendered or cannot be written: an exception leaves
\* run_analysis.
RunRaised ==
    /\ path # "none"
    /\ \/ report_raises(analysis_results)
       \/ output_file /\ ~file_written

\* C11: the exit status is 1 exactly when the topics-source key is missing or
\* an exception left run_analysis (the report could not be rendered from a
\* score that is no number, or the report file could not be written), and 0
\* otherwise; with the key missing nothing is fetched, analysed, rendered or
\* written; a run ended by a failed fetch exits with 0, and so does a run
\* that fell back unless its report file could not be written.
C11_ExitStatusByFailure ==
    pc = "exited" =>
        /\ exit_code \in {0, 1}
        /\ exit_code = 1 <=> (~tianapi_key \/ RunRaised)
        /\ ~tianapi_key =>
              /\ fetch_requests = 0 /\ claude_requests = 0 /\ basic_calls = 0
              /\ path = "none" /\ analysis_results = <<>>
              /\ report.engine = "none" /\ returned = "none"
              /\ ~file_written
        /\ (tianapi_key /\ FetchFailed) => exit_code = 0
        /\ (path = "claude_fallback" /\ (output_file => file_written)) =>
              exit_code = 0

\* A run with the key present fell back to the rule-based analyzer and then
\* could not write its report file.
C11_Witness ==
    /\ pc = "exited"
    /\ tianapi_key
    /\ path = "claude_fallback"
    /\ output_file /\ ~file_written
    /\ exit_code = 1


\* C12: two calls of the rule-based analyzer with the same title and heat,
\* the title matching a declared pattern, return the same analysis, whatever
\* was analysed before or between them and whatever the random generator
\* would have picked: two calls with the same title and heat differ in their
\* results only if the title matches no declared pattern.
C12_MatchedCallsRepeatable ==
    \A i, j \in 1..Len(UnitCalls) :
        LET a == UnitCalls[i]
            b == UnitCalls[j]
        IN  (a.title = b.title /\ a.heat = b.heat /\ a.result # b.result)
            => ~\E k \in 1..Len(idea_templates) :
                   OccursIn(idea_templates[k].pattern, a.title)

\* The first and the third call had the same matching title and heat and
\* different generator picks, with a call on an unmatched title between.
C12_Witness ==
    /\ Len(UnitCalls) = 3
    /\ UnitCalls[1].title = <<"u624B", "u673A", "A", "I">>
    /\ UnitCalls[3].title = UnitCalls[1].title
    /\ UnitCalls[3].heat = UnitCalls[1].heat
    /\ UnitCalls[3].choice # UnitCalls[1].choice
    /\ UnitCalls[2].title = <<"u82F9", "u679C">>
    /\ UnitCalls[2].result.category = "shehui_redian"
    /\ UnitCalls[3].result = UnitCalls[1].result


\* C13: in any run at most one topics-source request and at most one
\* generation request are issued; the generation request is issued only
\* after the fetch has returned a non-empty list; once a request of a kind
\* has been issued, failed or not, no further request of that kind follows.
C13_EachRequestAtMostOnce ==
    [][ /\ fetch_requests' <= 1
        /\ claude_requests' <= 1
        /\ fetch_requests >= 1 => fetch_requests' = fetch_requests
        /\ claude_requests >= 1 => claude_requests' = claude_requests
        /\ claude_requests' > claude_requests =>
              /\ fetch_requests = 1
              /\ api_response.kind = "ok"
              /\ hotspots # <<>>
              /\ pc = "fetched" ]_vars

\* A run ended after a fetch and a generation request that raised.
C13_Witness ==
    /\ pc = "exited"
    /\ fetch_requests = 1
    /\ claude_requests = 1
    /\ claude_response.kind = "api_error"
    /\ path = "claude_fallback"


\* C14 as stated: the header of a rendered report names the model-backed
\* engine exactly when the batch was produced by the model-backed path, and
\* the rule-based engine when the batch came from the rule-based analyzer
\* (use_claude false, no client, or a fallback of the whole batch).
C14_HeaderNamesProducer ==
    report.engine # "none" =>
        /\ path = "claude" <=> report.engine = "Claude Agent SDK"
        /\ path \in {"basic", "claude_fallback"} <=>
              report.engine = "jichu_guize_yinqing"


\* The first bracketed span of a text: from the first "[" to the first "]"
\* after it; the empty sequence when there is none.
FirstArray(text) ==
    LET lbs == {i \in 1..Len(text) : text[i] = LB}
    IN  IF lbs = {} THEN <<>>
        ELSE LET first == CHOOSE i \in lbs : \A j \in lbs : i <= j
                 rbs == {i \in first..Len(text) : text[i] = RB}
             IN  IF rbs = {} THEN <<>>
                 ELSE SubSeq(text, first,
                             CHOOSE i \in rbs : \A j \in rbs : i <= j)

\* The text is prose, then one well-formed JSON array of objects, then
\* further text, which may hold brackets.
ProseArrayProse(text) ==
    /\ FirstArray(text) # <<>>
    /\ json_ok(FirstArray(text))
    /\ \A k \in 1..Len(json_loads(FirstArray(text))) :
          json_loads(FirstArray(text))[k].type = "dict"
    /\ \A i \in 1..Len(text) :
          (\A j \in 1..i : text[j] # LB) => text[i] = Prose

\* C15 as stated: for a response of prose, one well-formed JSON array of
\* objects and further prose, also prose holding "]" or a bracketed span,
\* the model-backed analyzer does not fall back and builds the records from
\* the objects of that first array.
C15_FirstArrayParsed ==
    ( /\ claude_requests = 1
      /\ claude_response.kind = "text"
      /\ ProseArrayProse(claude_response.text) )
    => /\ path = "claude"
       /\ LET data == json_loads(FirstArray(claude_response.text))
          IN  \A i \in 1..Min(Len(hotspots), Len(data)) :
                 analysis_results[i].analysis =
                     MapAnalysis(data[i].val, hotspots[i].title)


RECURSIVE SumOver(_, _)
\* The sum of the counts f[k] over the keys k of S.
SumOver(f, S) ==
    IF S = {} THEN 0
    ELSE LET k == CHOOSE x \in S : TRUE
         IN  f[k] + SumOver(f, S \ {k})

\* C16 as stated: in every rendered report the grade counts, the category
\* counts and the sentiment counts each sum to the number of records: every
\* record is counted under one grade, one category and one sentiment.
C16_CountsPartitionBatch ==
    report.engine # "none" =>
        /\ report.count = Len(analysis_results)
        /\ report.excellent_count + report.good_count = report.count
        /\ SumOver(report.categories, DOMAIN report.categories) = report.count
        /\ SumOver(report.sentiments, DOMAIN report.sentiments) = report.count

=============================================================================
